---------------------------- MODULE Spec2Model ----------------------------
(***************************************************************************)
(* Quiz session program (src/src/processor.rs, state.rs, instruction.rs).  *)
(*                                                                         *)
(* The ledger is a store of accounts addressed by program-derived          *)
(* addresses.  Every instruction handler runs on a working copy of the     *)
(* accounts and returns a ProgramResult; the runtime keeps the working     *)
(* copy when the result is Ok and discards it otherwise, so a failed call  *)
(* leaves the ledger as it was (a stuttering step).                        *)
(***************************************************************************)
EXTENDS Integers, Sequences, FiniteSets, TLC

\* ---------------------------------------------------------------- bounds
\* largest question_count / number of question indices the callers use
MaxQ == 2
\* largest answer byte / correct_answer_index the callers use
MaxAns == 1
\* cap on player_count under Spec (SpecCount runs the full u8 range)
MaxDelegations == 2
\* longest per-player account list a caller hands to CalculateScores
MaxAccounts == 2

\* ------------------------------------------------------ program constants
\* player_count is a u8 (state.rs:23): values 0 .. U8Max
U8Max == 255

\* ------------------------------------------------------------------ keys
Host == "h"
Keys == {"h", "p"}
\* Pubkey of an all-zero buffer (a created, never written account)
ZeroKey == "zero"
ScoreKeys == Keys \cup {ZeroKey}

\* Pubkey::find_program_address(seeds, program_id): deterministic and
\* injective in its seeds, so an address is represented by its seeds.
find_program_address(seeds) == seeds

QuizPda(host) == find_program_address(<<"quiz_session", host>>)
QuestionPda(quiz_key, question_index) ==
    find_program_address(<<"quiz_question", quiz_key, question_index>>)
PlayerAnswerPda(quiz_key, player) ==
    find_program_address(<<"player_answer", quiz_key, player>>)
PlayerScorePda(quiz_key, player) ==
    find_program_address(<<"player_score", quiz_key, player>>)

\* The one quiz account the callers pass (the session of Host).
QuizKey == QuizPda(Host)
QuestionIndices == 0 .. (MaxQ - 1)
QuestionAddrs == {QuestionPda(QuizKey, i) : i \in QuestionIndices}
AnswerAddrs == {PlayerAnswerPda(QuizKey, k) : k \in Keys}
ScoreAddrs == {PlayerScorePda(QuizKey, k) : k \in ScoreKeys}

AnswerVals == 0 .. MaxAns

\* all sequences over S of length lo .. hi
SeqsBetween(S, lo, hi) == UNION {[1 .. n -> S] : n \in lo .. hi}

Max(a, b) == IF a > b THEN a ELSE b
Min(a, b) == IF a < b THEN a ELSE b

VARIABLES
    quiz,        \* the QuizSession account at QuizKey
    questions,   \* QuizQuestion accounts, by address
    answers,     \* PlayerAnswer accounts, by address
    scores,      \* PlayerScore accounts, by address
    ret          \* the instruction of the last call the runtime committed

vars == <<quiz, questions, answers, scores, ret>>

\* ------------------------------------------------------------- accounts
\* An account that was never created holds no data.
NoQuiz ==
    [exists |-> FALSE, host |-> ZeroKey, question_count |-> 0,
     player_count |-> 0, active |-> FALSE, completed |-> FALSE]
NoQuestion == [exists |-> FALSE, correct_answer_index |-> 0]
NoScore == [exists |-> FALSE, player |-> ZeroKey, score |-> 0]

\* A PlayerAnswer account is a buffer of 32 + 4 + room bytes (state.rs
\* get_size); it is created outside this program, zero-filled, with a room
\* the creator chose.  player/answers are the record its leading bytes hold.
BlankAnswer(room) == [room |-> room, player |-> ZeroKey, answers |-> <<>>]
Rooms == 0 .. MaxQ

\* The accounts a handler works on.
Cur ==
    [quiz |-> quiz, questions |-> questions, answers |-> answers,
     scores |-> scores]

\* T::try_from_slice(&account.data.borrow()): fails on an empty buffer and
\* on bytes left over after the record.
QuizDecodes(q) == q.exists
QuestionDecodes(q) == q.exists
AnswerDecodes(a) == Len(a.answers) = a.room

\* record.serialize(&mut &mut account.data.borrow_mut()[..]): fails when
\* the buffer is shorter than the record.
AnswerFits(a, ans) == Len(ans) <= a.room

\* The handlers take the accounts the caller lists and check no address of
\* player_answer_account: the caller may list the quiz account there as
\* well.  Its buffer has QuizSession::SIZE = 32 + 1 + 1 + 1 + 1 bytes, the
\* size of a PlayerAnswer without answers.
QuizRoom == 0
SubmitTargets == AnswerAddrs \cup {QuizKey}

\* The QuizSession that the bytes of PlayerAnswer {player, answers} decode
\* to: the key, then the four little-endian bytes of the vector's length as
\* question_count, player_count, active and completed.
SessionFromAnswerBytes(player, n) ==
    [exists |-> TRUE, host |-> player, question_count |-> n % 256,
     player_count |-> (n \div 256) % 256,
     active |-> ((n \div 65536) % 256) # 0,
     completed |-> ((n \div 16777216) % 256) # 0]

\* A handler's outcome: its ProgramResult, whether it had completed a record
\* write or creation before returning, and its working copy.
Outcome(err, wrote, st) == [err |-> err, wrote |-> wrote, st |-> st]

Instructions ==
    {"InitializeQuiz", "AddQuestion", "StartQuiz", "DelegatePlayer",
     "SubmitAnswers", "CommitAnswers", "CalculateScores", "UndelegatePlayer"}

TypeOK ==
    /\ quiz \in [exists : BOOLEAN, host : ScoreKeys,
                 question_count : 0 .. U8Max, player_count : 0 .. U8Max,
                 active : BOOLEAN, completed : BOOLEAN]
    /\ ret \in Instructions \cup {"None"}

Init ==
    /\ quiz = NoQuiz
    /\ questions = [a \in QuestionAddrs |-> NoQuestion]
    /\ answers \in {[a \in AnswerAddrs |-> BlankAnswer(r[a])] :
                        r \in [AnswerAddrs -> Rooms]}
    /\ scores = [a \in ScoreAddrs |-> NoScore]
    /\ ret = "None"

\* ------------------------------------------------------------- runtime
\* entrypoint.rs process_instruction: `processor::process_instruction(..)?;
\* Ok(())` hands the handler's ProgramResult to the runtime unchanged.
entrypoint_swallows_error(out) == "Ok"

entrypoint_process_instruction(out) == out.err

\* The runtime keeps the working copy of a call that returned Ok and
\* discards the working copy of a call that returned an error.
Kept(st, out) ==
    IF entrypoint_process_instruction(out) = "Ok" THEN out.st ELSE st

Transact(op, out) ==
    LET result == out
        kept == Kept(Cur, result)
    IN  /\ quiz' = kept.quiz
        /\ questions' = kept.questions
        /\ answers' = kept.answers
        /\ scores' = kept.scores
        /\ ret' = IF result.err = "Ok" THEN op ELSE ret

\* ------------------------------------------------------------ handlers
\* process_initialize_quiz without the address comparison of lines 81-84
process_initialize_quiz_any_address(st, caller, signed, quiz_account, question_count) ==
    IF ~signed THEN Outcome("MissingRequiredSignature", FALSE, st)
    ELSE IF st.quiz.exists
    THEN Outcome("AccountAlreadyInUse", FALSE, st)
    ELSE Outcome("Ok", TRUE,
                 [st EXCEPT !.quiz =
                     [exists |-> TRUE, host |-> caller,
                      question_count |-> question_count, player_count |-> 0,
                      active |-> FALSE, completed |-> FALSE]])

process_initialize_quiz(st, caller, signed, quiz_account, question_count) ==
    IF ~signed THEN Outcome("MissingRequiredSignature", FALSE, st)
    ELSE IF QuizPda(caller) # quiz_account
    THEN Outcome("InvalidArgument", FALSE, st)
    ELSE IF st.quiz.exists
    THEN Outcome("AccountAlreadyInUse", FALSE, st)
    ELSE Outcome("Ok", TRUE,
                 [st EXCEPT !.quiz =
                     [exists |-> TRUE, host |-> caller,
                      question_count |-> question_count, player_count |-> 0,
                      active |-> FALSE, completed |-> FALSE]])

InitializeQuiz(caller, signed, quiz_account, question_count) ==
    Transact("InitializeQuiz",
             process_initialize_quiz(Cur, caller, signed, quiz_account,
                                     question_count))

\* process_start_quiz without the host check of lines 221-225
process_start_quiz_any_signer(st, caller, signed) ==
    IF ~signed THEN Outcome("MissingRequiredSignature", FALSE, st)
    ELSE IF ~QuizDecodes(st.quiz) THEN Outcome("BorshIoError", FALSE, st)
    ELSE Outcome("Ok", TRUE, [st EXCEPT !.quiz.active = TRUE])

process_start_quiz(st, caller, signed) ==
    IF ~signed THEN Outcome("MissingRequiredSignature", FALSE, st)
    ELSE IF ~QuizDecodes(st.quiz) THEN Outcome("BorshIoError", FALSE, st)
    ELSE IF st.quiz.host # caller
    THEN Outcome("InvalidAccountData", FALSE, st)
    ELSE Outcome("Ok", TRUE, [st EXCEPT !.quiz.active = TRUE])

StartQuiz(caller, signed) ==
    Transact("StartQuiz",
             process_start_quiz(Cur, caller, signed))

\* process_add_question without the phase check of lines 147-150
process_add_question_any_phase(st, caller, signed, question_index, question_account, correct_answer_index) ==
    IF ~signed THEN Outcome("MissingRequiredSignature", FALSE, st)
    ELSE IF ~QuizDecodes(st.quiz) THEN Outcome("BorshIoError", FALSE, st)
    ELSE IF st.quiz.host # caller
    THEN Outcome("InvalidAccountData", FALSE, st)
    ELSE IF QuestionPda(QuizKey, question_index) # question_account
    THEN Outcome("InvalidArgument", FALSE, st)
    ELSE IF st.questions[question_account].exists
    THEN Outcome("AccountAlreadyInUse", FALSE, st)
    ELSE Outcome("Ok", TRUE,
                 [st EXCEPT !.questions[question_account] =
                     [exists |-> TRUE,
                      correct_answer_index |-> correct_answer_index]])

process_add_question(st, caller, signed, question_index, question_account, correct_answer_index) ==
    IF ~signed THEN Outcome("MissingRequiredSignature", FALSE, st)
    ELSE IF ~QuizDecodes(st.quiz) THEN Outcome("BorshIoError", FALSE, st)
    ELSE IF st.quiz.host # caller
    THEN Outcome("InvalidAccountData", FALSE, st)
    ELSE IF st.quiz.active THEN Outcome("InvalidAccountData", FALSE, st)
    ELSE IF QuestionPda(QuizKey, question_index) # question_account
    THEN Outcome("InvalidArgument", FALSE, st)
    ELSE IF st.questions[question_account].exists
    THEN Outcome("AccountAlreadyInUse", FALSE, st)
    ELSE Outcome("Ok", TRUE,
                 [st EXCEPT !.questions[question_account] =
                     [exists |-> TRUE,
                      correct_answer_index |-> correct_answer_index]])

AddQuestion(caller, signed, question_index, question_account, correct_answer_index) ==
    Transact("AddQuestion",
             process_add_question(Cur, caller, signed, question_index,
                                  question_account, correct_answer_index))

\* process_delegate_player without the phase check of lines 253-257
process_delegate_player_any_phase(st, caller, signed, player_answer_account, cpi_ok, overflow_checks) ==
    IF ~signed THEN Outcome("MissingRequiredSignature", FALSE, st)
    ELSE IF ~QuizDecodes(st.quiz) THEN Outcome("BorshIoError", FALSE, st)
    ELSE IF st.quiz.player_count = U8Max /\ overflow_checks
    THEN Outcome("Panic", FALSE, st)
    ELSE LET counted ==
                 [st EXCEPT !.quiz.player_count =
                     (st.quiz.player_count + 1) % (U8Max + 1)]
         IN  IF ~cpi_ok THEN Outcome("CpiFailed", TRUE, counted)
             ELSE Outcome("Ok", TRUE, counted)

\* quiz_data.player_count += 1 on a u8: at U8Max a build with overflow checks
\* panics, a build without them wraps to 0.
process_delegate_player(st, caller, signed, player_answer_account, cpi_ok, overflow_checks) ==
    IF ~signed THEN Outcome("MissingRequiredSignature", FALSE, st)
    ELSE IF ~QuizDecodes(st.quiz) THEN Outcome("BorshIoError", FALSE, st)
    ELSE IF ~st.quiz.active \/ st.quiz.completed
    THEN Outcome("InvalidAccountData", FALSE, st)
    ELSE IF st.quiz.player_count = U8Max /\ overflow_checks
    THEN Outcome("Panic", FALSE, st)
    ELSE LET counted ==
                 [st EXCEPT !.quiz.player_count =
                     (st.quiz.player_count + 1) % (U8Max + 1)]
         IN  IF ~cpi_ok THEN Outcome("CpiFailed", TRUE, counted)
             ELSE Outcome("Ok", TRUE, counted)

DelegatePlayer(caller, signed, player_answer_account, cpi_ok, overflow_checks) ==
    Transact("DelegatePlayer",
             process_delegate_player(Cur, caller, signed,
                                     player_answer_account, cpi_ok,
                                     overflow_checks))

\* process_submit_answers rejecting only a longer answer list (> for !=)
process_submit_answers_short_ok(st, caller, signed, player_answer_account, ans) ==
    IF ~signed THEN Outcome("MissingRequiredSignature", FALSE, st)
    ELSE IF ~QuizDecodes(st.quiz) THEN Outcome("BorshIoError", FALSE, st)
    ELSE IF ~st.quiz.active \/ st.quiz.completed
    THEN Outcome("InvalidAccountData", FALSE, st)
    ELSE IF Len(ans) > st.quiz.question_count
    THEN Outcome("InvalidInstructionData", FALSE, st)
    ELSE IF player_answer_account = QuizKey
    THEN IF Len(ans) > QuizRoom THEN Outcome("BorshIoError", FALSE, st)
         ELSE Outcome("Ok", TRUE,
                      [st EXCEPT !.quiz =
                          SessionFromAnswerBytes(caller, Len(ans))])
    ELSE IF ~AnswerFits(st.answers[player_answer_account], ans)
    THEN Outcome("BorshIoError", FALSE, st)
    ELSE Outcome("Ok", TRUE,
                 [st EXCEPT !.answers[player_answer_account] =
                     [room |-> @.room, player |-> caller, answers |-> ans]])

process_submit_answers(st, caller, signed, player_answer_account, ans) ==
    IF ~signed THEN Outcome("MissingRequiredSignature", FALSE, st)
    ELSE IF ~QuizDecodes(st.quiz) THEN Outcome("BorshIoError", FALSE, st)
    ELSE IF ~st.quiz.active \/ st.quiz.completed
    THEN Outcome("InvalidAccountData", FALSE, st)
    ELSE IF Len(ans) # st.quiz.question_count
    THEN Outcome("InvalidInstructionData", FALSE, st)
    ELSE IF player_answer_account = QuizKey
    THEN IF Len(ans) > QuizRoom THEN Outcome("BorshIoError", FALSE, st)
         ELSE Outcome("Ok", TRUE,
                      [st EXCEPT !.quiz =
                          SessionFromAnswerBytes(caller, Len(ans))])
    ELSE IF ~AnswerFits(st.answers[player_answer_account], ans)
    THEN Outcome("BorshIoError", FALSE, st)
    ELSE Outcome("Ok", TRUE,
                 [st EXCEPT !.answers[player_answer_account] =
                     [room |-> @.room, player |-> caller, answers |-> ans]])

SubmitAnswers(caller, signed, player_answer_account, ans) ==
    Transact("SubmitAnswers",
             process_submit_answers(Cur, caller, signed,
                                    player_answer_account, ans))

process_commit_answers(st, caller, signed, cpi_ok) ==
    IF ~signed THEN Outcome("MissingRequiredSignature", FALSE, st)
    ELSE IF ~QuizDecodes(st.quiz) THEN Outcome("BorshIoError", FALSE, st)
    ELSE IF st.quiz.host # caller
    THEN Outcome("InvalidAccountData", FALSE, st)
    ELSE IF ~cpi_ok THEN Outcome("CpiFailed", FALSE, st)
    ELSE Outcome("Ok", FALSE, st)

CommitAnswers(caller, signed, cpi_ok) ==
    Transact("CommitAnswers",
             process_commit_answers(Cur, caller, signed, cpi_ok))

process_undelegate_player(st, caller, signed, player_answer_account, cpi_ok) ==
    IF ~signed THEN Outcome("MissingRequiredSignature", FALSE, st)
    ELSE IF ~cpi_ok THEN Outcome("CpiFailed", FALSE, st)
    ELSE Outcome("Ok", FALSE, st)

UndelegatePlayer(caller, signed, player_answer_account, cpi_ok) ==
    Transact("UndelegatePlayer",
             process_undelegate_player(Cur, caller, signed,
                                       player_answer_account, cpi_ok))

\* processor.rs 377-381: one question account per question_count, decoded in
\* the order the caller supplied them.  Yields the answer key read so far.
RECURSIVE ReadQuestions(_, _, _, _)
ReadQuestions(st, accts, n, acc) ==
    IF n = 0 THEN [err |-> "Ok", questions |-> acc]
    ELSE IF accts = <<>>
    THEN [err |-> "NotEnoughAccountKeys", questions |-> acc]
    ELSE IF ~QuestionDecodes(st.questions[Head(accts)])
    THEN [err |-> "BorshIoError", questions |-> acc]
    ELSE ReadQuestions(st, Tail(accts), n - 1,
             Append(acc, st.questions[Head(accts)].correct_answer_index))

\* processor.rs 393-398: i is the 0-based index of enumerate().  score is a
\* u8; it is incremented at most questions.len() <= U8Max times.
RECURSIVE ScoreLoop(_, _, _, _)
ScoreLoop(player_answers, key, i, score) ==
    IF i >= Len(player_answers) THEN score
    ELSE ScoreLoop(player_answers, key, i + 1,
             IF i < Len(key) /\ player_answers[i + 1] = key[i + 1]
             THEN score + 1 ELSE score)

\* the loop started at index 1 instead of 0
CalculateScoreSkipFirst(player_answers, key) ==
    ScoreLoop(player_answers, key, 1, 0)

CalculateScore(player_answers, key) == ScoreLoop(player_answers, key, 0, 0)

\* processor.rs 384-453: per player the caller supplies the answer account
\* and the score account (and the system program).
RECURSIVE ScorePlayers(_, _, _, _, _)
ScorePlayers(st, accts, key, n, wrote) ==
    IF n = 0 THEN Outcome("Ok", wrote, st)
    ELSE IF accts = <<>> THEN Outcome("NotEnoughAccountKeys", wrote, st)
    ELSE LET player_answer == st.answers[Head(accts).answer]
             score_pda == PlayerScorePda(QuizKey, player_answer.player)
         IN  IF ~AnswerDecodes(player_answer)
             THEN Outcome("BorshIoError", wrote, st)
             ELSE IF score_pda # Head(accts).score
             THEN Outcome("InvalidArgument", wrote, st)
             ELSE IF st.scores[score_pda].exists
             THEN Outcome("AccountAlreadyInUse", wrote, st)
             ELSE ScorePlayers(
                      [st EXCEPT !.scores[score_pda] =
                          [exists |-> TRUE, player |-> player_answer.player,
                           score |-> CalculateScore(player_answer.answers,
                                                    key)]],
                      Tail(accts), key, n - 1, TRUE)

process_calculate_scores(st, caller, signed, question_accounts, player_accounts) ==
    IF ~signed THEN Outcome("MissingRequiredSignature", FALSE, st)
    ELSE IF ~QuizDecodes(st.quiz) THEN Outcome("BorshIoError", FALSE, st)
    ELSE IF st.quiz.host # caller
    THEN Outcome("InvalidAccountData", FALSE, st)
    ELSE LET read == ReadQuestions(st, question_accounts,
                                   st.quiz.question_count, <<>>)
         IN  IF read.err # "Ok" THEN Outcome(read.err, FALSE, st)
             ELSE LET scored == ScorePlayers(st, player_accounts,
                                             read.questions,
                                             st.quiz.player_count, FALSE)
                  IN  IF scored.err # "Ok" THEN scored
                      ELSE Outcome("Ok", TRUE,
                               [scored.st EXCEPT !.quiz.completed = TRUE])

CalculateScores(caller, signed, question_accounts, player_accounts) ==
    Transact("CalculateScores",
             process_calculate_scores(Cur, caller, signed, question_accounts,
                                      player_accounts))

\* ------------------------------------------------------- callers' inputs
AnswerInputs == SeqsBetween(AnswerVals, 0, MaxQ)

\* Account lists for CalculateScores: complete, or one account short.
PlayerEntries == [answer : AnswerAddrs, score : ScoreAddrs]
QuestionListsFor(q) ==
    SeqsBetween(QuestionAddrs, Max(q.question_count - 1, 0),
                Min(q.question_count, MaxQ))
PlayerListsFor(q) ==
    SeqsBetween(PlayerEntries, Max(Min(q.player_count, MaxAccounts) - 1, 0),
                Min(q.player_count, MaxAccounts))

\* Inputs a handler does not read on the path it takes are not varied.
Pick(read, S) == IF read THEN S ELSE {CHOOSE x \in S : TRUE}

Next ==
    \/ \E caller \in Keys, signed \in BOOLEAN :
          \E q \in Pick(signed, 0 .. MaxQ) :
              InitializeQuiz(caller, signed, QuizKey, q)
    \/ \E caller \in Keys, signed \in BOOLEAN :
          \E i \in Pick(signed /\ ~quiz.active, QuestionIndices),
             a \in Pick(signed /\ ~quiz.active, QuestionAddrs),
             c \in Pick(signed /\ ~quiz.active, AnswerVals) :
              AddQuestion(caller, signed, i, a, c)
    \/ \E caller \in Keys, signed \in BOOLEAN : StartQuiz(caller, signed)
    \/ \E caller \in Keys, signed \in BOOLEAN :
          \E a \in Pick(signed, AnswerAddrs), cpi_ok \in Pick(signed, BOOLEAN),
             overflow_checks \in Pick(signed, BOOLEAN) :
              /\ quiz.player_count < MaxDelegations
              /\ DelegatePlayer(caller, signed, a, cpi_ok, overflow_checks)
    \/ \E caller \in Keys, signed \in BOOLEAN :
          \E a \in Pick(signed /\ quiz.active /\ ~quiz.completed, SubmitTargets),
             ans \in Pick(signed /\ quiz.active /\ ~quiz.completed,
                          AnswerInputs) :
              SubmitAnswers(caller, signed, a, ans)
    \/ \E caller \in Keys, signed \in BOOLEAN, cpi_ok \in BOOLEAN :
          CommitAnswers(caller, signed, cpi_ok)
    \/ \E caller \in Keys, signed \in BOOLEAN :
          \E qa \in Pick(signed /\ caller = quiz.host, QuestionListsFor(quiz)) :
              \E pa \in Pick(/\ signed /\ caller = quiz.host
                              /\ ReadQuestions(Cur, qa, quiz.question_count,
                                               <<>>).err = "Ok",
                              PlayerListsFor(quiz)) :
                  CalculateScores(caller, signed, qa, pa)
    \/ \E caller \in Keys, signed \in BOOLEAN :
          \E a \in Pick(signed, AnswerAddrs), cpi_ok \in Pick(signed, BOOLEAN) :
              UndelegatePlayer(caller, signed, a, cpi_ok)

Spec == Init /\ [][Next]_vars

\* The full u8 range of player_count: one host, a session without
\* questions, and DelegatePlayer calls up to and past U8Max.
NextCount ==
    \/ InitializeQuiz(Host, TRUE, QuizKey, 0)
    \/ StartQuiz(Host, TRUE)
    \/ \E caller \in Keys, signed \in BOOLEAN, cpi_ok \in BOOLEAN,
          overflow_checks \in BOOLEAN :
          DelegatePlayer(caller, signed, PlayerAnswerPda(QuizKey, caller),
                         cpi_ok, overflow_checks)

SpecCount == Init /\ [][NextCount]_vars
\* ------------------------------------------------------------ dispatcher
\* Borsh readers over a byte sequence b from position pos (1-based): the
\* value read and the position after it, or ok = FALSE when b ends early.
ReadU8(b, pos) ==
    IF pos > Len(b) THEN [ok |-> FALSE, val |-> 0, next |-> pos]
    ELSE [ok |-> TRUE, val |-> b[pos], next |-> pos + 1]

ReadU32(b, pos) ==
    IF pos + 3 > Len(b) THEN [ok |-> FALSE, val |-> 0, next |-> pos]
    ELSE [ok |-> TRUE,
          val |-> b[pos] + 256 * b[pos + 1] + 65536 * b[pos + 2]
                  + 16777216 * b[pos + 3],
          next |-> pos + 4]

\* Vec<u8> and String (the inputs are ASCII, so always valid UTF-8)
ReadVecU8(b, pos) ==
    LET n == ReadU32(b, pos)
    IN  IF ~n.ok \/ n.next + n.val - 1 > Len(b)
        THEN [ok |-> FALSE, val |-> <<>>, next |-> pos]
        ELSE [ok |-> TRUE, val |-> SubSeq(b, n.next, n.next + n.val - 1),
              next |-> n.next + n.val]

\* n consecutive Vec<u8> / String values
RECURSIVE ReadVecs(_, _, _, _)
ReadVecs(b, pos, n, acc) ==
    IF n = 0 THEN [ok |-> TRUE, val |-> acc, next |-> pos]
    ELSE LET v == ReadVecU8(b, pos)
         IN  IF ~v.ok THEN [ok |-> FALSE, val |-> acc, next |-> pos]
             ELSE ReadVecs(b, v.next, n - 1, Append(acc, v.val))

ReadVecVecU8(b, pos) ==
    LET n == ReadU32(b, pos)
    IN  IF ~n.ok THEN [ok |-> FALSE, val |-> <<>>, next |-> pos]
        ELSE ReadVecs(b, n.next, n.val, <<>>)

\* AddQuestionData: question_index, question_text, options[4],
\* correct_answer_index
ReadAddQuestionData(b, pos) ==
    LET idx == ReadU8(b, pos)
        strs == ReadVecs(b, idx.next, 5, <<>>)
        cor == ReadU8(b, strs.next)
    IN  IF ~idx.ok \/ ~strs.ok \/ ~cor.ok
        THEN [ok |-> FALSE, val |-> <<0, 0>>, next |-> pos]
        ELSE [ok |-> TRUE, val |-> <<idx.val, cor.val>>, next |-> cor.next]

\* T::try_from_slice(rest): the read succeeds and consumes every byte.
TryFromSlice(r, b) == r.ok /\ r.next = Len(b) + 1

\* The 8-byte discriminator of command n
Disc(n) == <<n, 0, 0, 0, 0, 0, 0, 0>>

NoInstruction(err) ==
    [err |-> err, tag |-> "None", question_count |-> 0, question_index |-> 0,
     correct_answer_index |-> 0, answers |-> <<>>, pda_seeds |-> <<>>]

Unpacked(tag) == [NoInstruction("Ok") EXCEPT !.tag = tag]

\* QuizInstruction::unpack matching the first header byte only
unpack_first_byte_only(input) ==
    IF Len(input) < 8 THEN NoInstruction("InvalidInstructionData")
    ELSE LET ix_discriminator == SubSeq(input, 1, 8)
             rest == SubSeq(input, 9, Len(input))
         IN  CASE ix_discriminator[1] = 0 ->
                    IF rest = <<>>
                    THEN NoInstruction("InvalidInstructionData")
                    ELSE [Unpacked("InitializeQuiz")
                             EXCEPT !.question_count = rest[1]]
               [] ix_discriminator[1] = 1 ->
                    LET question_data == ReadAddQuestionData(rest, 1)
                    IN  IF ~TryFromSlice(question_data, rest)
                        THEN NoInstruction("BorshIoError")
                        ELSE [Unpacked("AddQuestion")
                                 EXCEPT !.question_index =
                                            question_data.val[1],
                                        !.correct_answer_index =
                                            question_data.val[2]]
               [] ix_discriminator[1] = 2 -> Unpacked("StartQuiz")
               [] ix_discriminator[1] = 3 -> Unpacked("DelegatePlayer")
               [] ix_discriminator[1] = 4 ->
                    LET answers_read == ReadVecU8(rest, 1)
                    IN  IF ~TryFromSlice(answers_read, rest)
                        THEN NoInstruction("BorshIoError")
                        ELSE [Unpacked("SubmitAnswers")
                                 EXCEPT !.answers = answers_read.val]
               [] ix_discriminator[1] = 5 -> Unpacked("CommitAnswers")
               [] ix_discriminator[1] = 6 -> Unpacked("CalculateScores")
               [] ix_discriminator[1] = 7 ->
                    LET seeds_read == ReadVecVecU8(rest, 1)
                    IN  IF ~TryFromSlice(seeds_read, rest)
                        THEN NoInstruction("BorshIoError")
                        ELSE [Unpacked("UndelegatePlayer")
                                 EXCEPT !.pda_seeds = seeds_read.val]
               [] OTHER -> NoInstruction("InvalidInstructionData")

unpack(input) ==
    IF Len(input) < 8 THEN NoInstruction("InvalidInstructionData")
    ELSE LET ix_discriminator == SubSeq(input, 1, 8)
             rest == SubSeq(input, 9, Len(input))
         IN  CASE ix_discriminator = Disc(0) ->
                    IF rest = <<>>
                    THEN NoInstruction("InvalidInstructionData")
                    ELSE [Unpacked("InitializeQuiz")
                             EXCEPT !.question_count = rest[1]]
               [] ix_discriminator = Disc(1) ->
                    LET question_data == ReadAddQuestionData(rest, 1)
                    IN  IF ~TryFromSlice(question_data, rest)
                        THEN NoInstruction("BorshIoError")
                        ELSE [Unpacked("AddQuestion")
                                 EXCEPT !.question_index =
                                            question_data.val[1],
                                        !.correct_answer_index =
                                            question_data.val[2]]
               [] ix_discriminator = Disc(2) -> Unpacked("StartQuiz")
               [] ix_discriminator = Disc(3) -> Unpacked("DelegatePlayer")
               [] ix_discriminator = Disc(4) ->
                    LET answers_read == ReadVecU8(rest, 1)
                    IN  IF ~TryFromSlice(answers_read, rest)
                        THEN NoInstruction("BorshIoError")
                        ELSE [Unpacked("SubmitAnswers")
                                 EXCEPT !.answers = answers_read.val]
               [] ix_discriminator = Disc(5) -> Unpacked("CommitAnswers")
               [] ix_discriminator = Disc(6) -> Unpacked("CalculateScores")
               [] ix_discriminator = Disc(7) ->
                    LET seeds_read == ReadVecVecU8(rest, 1)
                    IN  IF ~TryFromSlice(seeds_read, rest)
                        THEN NoInstruction("BorshIoError")
                        ELSE [Unpacked("UndelegatePlayer")
                                 EXCEPT !.pda_seeds = seeds_read.val]
               [] OTHER -> NoInstruction("InvalidInstructionData")

\* The accounts and the environment of one call of a client that lists its
\* own answer account, the question accounts in order and, per player, an
\* answer account with the score account derived from its player: the
\* accounts after the signer and the quiz account, and what the environment
\* decides (the outcome of a CPI, the build's overflow checks).
CallEnvs(caller, tag) ==
    [question : Pick(tag = "AddQuestion", QuestionAddrs),
     answer : {PlayerAnswerPda(QuizKey, caller)},
     questions : {[i \in 1 .. Min(quiz.question_count, MaxQ) |->
                      QuestionPda(QuizKey, i - 1)]},
     players : Pick(tag = "CalculateScores",
                    [1 .. Min(quiz.player_count, MaxAccounts) ->
                        {[answer |-> a,
                          score |-> PlayerScorePda(QuizKey,
                                                   answers[a].player)] :
                            a \in AnswerAddrs}]),
     cpi_ok : Pick(tag \in {"DelegatePlayer", "CommitAnswers",
                            "UndelegatePlayer"}, BOOLEAN),
     overflow_checks : Pick(tag = "DelegatePlayer", BOOLEAN)]

\* processor.rs process_instruction, lines 31-58: the handler of the command
match_instruction(st, caller, signed, env, instruction) ==
    CASE instruction.tag = "InitializeQuiz" ->
            process_initialize_quiz(st, caller, signed, QuizKey,
                                    instruction.question_count)
      [] instruction.tag = "AddQuestion" ->
            process_add_question(st, caller, signed,
                                 instruction.question_index, env.question,
                                 instruction.correct_answer_index)
      [] instruction.tag = "StartQuiz" ->
            process_start_quiz(st, caller, signed)
      [] instruction.tag = "DelegatePlayer" ->
            process_delegate_player(st, caller, signed, env.answer,
                                    env.cpi_ok, env.overflow_checks)
      [] instruction.tag = "SubmitAnswers" ->
            process_submit_answers(st, caller, signed, env.answer,
                                   instruction.answers)
      [] instruction.tag = "CommitAnswers" ->
            process_commit_answers(st, caller, signed, env.cpi_ok)
      [] instruction.tag = "CalculateScores" ->
            process_calculate_scores(st, caller, signed, env.questions,
                                     env.players)
      [] instruction.tag = "UndelegatePlayer" ->
            process_undelegate_player(st, caller, signed, env.answer,
                                      env.cpi_ok)

\* processor.rs process_instruction: unpack, then the handler of the command.
process_instruction(st, caller, signed, env, instruction_data) ==
    LET instruction == unpack(instruction_data)
    IN  IF instruction.err # "Ok" THEN Outcome(instruction.err, FALSE, st)
        ELSE match_instruction(st, caller, signed, env, instruction)

ProcessInstruction(caller, signed, env, instruction_data) ==
    LET out == process_instruction(Cur, caller, signed, env,
                                   instruction_data)
    IN  /\ out.err # "Ok" => UNCHANGED vars
        /\ out.err = "Ok" =>
               Transact(unpack(instruction_data).tag, out)

\* ---------------------------------------------------- instruction buffers
\* Borsh writers, as a client builds the payloads.
EncU32(n) ==
    <<n % 256, (n \div 256) % 256, (n \div 65536) % 256,
      (n \div 16777216) % 256>>
EncVecU8(v) == EncU32(Len(v)) \o v
EncAddQuestionData(question_index, question_text, correct_answer_index) ==
    <<question_index>> \o EncVecU8(question_text) \o EncVecU8(<<>>)
        \o EncVecU8(<<>>) \o EncVecU8(<<>>) \o EncVecU8(<<>>)
        \o <<correct_answer_index>>

\* first header bytes: the eight commands and MaxDisc - 7 unknown ones
MaxDisc == 8
\* header bytes 1 .. 7: all zero, or one byte set, at position 1 .. MaxPadPos
MaxPadPos == 1
Pads ==
    {[i \in 1 .. 7 |-> 0]}
    \cup {[i \in 1 .. 7 |-> IF i = k THEN 1 ELSE 0] : k \in 1 .. MaxPadPos}
Headers == {<<d>> \o pad : d \in 0 .. MaxDisc, pad \in Pads}
Payloads ==
    {<<>>, <<1, 0, 0, 0>>, EncU32(1) \o EncVecU8(<<1>>)}
    \cup {<<q>> : q \in 0 .. MaxQ}
    \cup {EncVecU8(ans) : ans \in AnswerInputs}
    \cup {EncAddQuestionData(i, <<65>>, c) :
              i \in QuestionIndices, c \in AnswerVals}
Buffers ==
    {<<>>, <<2>>, <<2, 0, 0, 0, 0, 0, 0>>}
    \cup {h \o payload : h \in Headers, payload \in Payloads}

\* One session, its host making every call through the dispatcher on a
\* buffer (the host also plays).
InitUnpack ==
    /\ quiz = NoQuiz
    /\ questions = [a \in QuestionAddrs |-> NoQuestion]
    /\ answers = [a \in AnswerAddrs |-> BlankAnswer(MaxQ)]
    /\ scores = [a \in ScoreAddrs |-> NoScore]
    /\ ret = "None"

\* what each buffer unpacks to
Unpackings == [instruction_data \in Buffers |-> unpack(instruction_data)]

NextUnpack ==
    \E caller \in {Host}, instruction_data \in Buffers :
        \E env \in CallEnvs(caller, Unpackings[instruction_data].tag) :
            /\ Unpackings[instruction_data].tag = "DelegatePlayer"
                   => quiz.player_count < MaxDelegations
            /\ ProcessInstruction(caller, TRUE, env, instruction_data)

SpecUnpack == InitUnpack /\ [][NextUnpack]_vars

\* ------------------------------------------------- the spec's error names
\* The spec's taxonomy, as sets of the ProgramError values the code returns:
\* MissingRequiredSignature for a missing signature, InvalidAccountData for
\* a wrong host and for a wrong session phase alike, InvalidArgument for an
\* address that is not the derived one, InvalidInstructionData for a wrong
\* answer count.
Unauthorized == {"MissingRequiredSignature", "InvalidAccountData"}
InvalidState == {"InvalidAccountData"}
AddressMismatch == {"InvalidArgument"}
MalformedInput == {"InvalidInstructionData"}

\* ---------------------------------------------------------------- claims
\* C1: in every reachable session state, completed = true implies
\* active = true (CalculateScores completes only an Active session).
C1_CompletedImpliesActive == quiz.completed => quiz.active

\* C2: a PlayerAnswer record is modified only by its owning player and only
\* while the session is active and not completed.  The handler stores the
\* signer in the record's player field, so a record of player k that
\* changes must afterwards name k.
C2_OnlyOwnerWrites ==
    [][\A k \in Keys :
          LET a == PlayerAnswerPda(QuizKey, k)
          IN  answers'[a] # answers[a] =>
                  /\ quiz.active /\ ~quiz.completed
                  /\ answers'[a].player = k]_vars

C4_SubmitByCountOnly ==
    quiz.exists =>
        \A caller \in Keys, signed \in BOOLEAN, a \in AnswerAddrs,
           ans \in AnswerInputs :
            LET out == process_submit_answers(Cur, caller, signed, a, ans)
                after == Kept(Cur, out).answers
            IN  IF Len(ans) # quiz.question_count
                THEN out.err \in MalformedInput /\ after = answers
                ELSE (signed /\ quiz.active /\ ~quiz.completed) =>
                        /\ out.err = "Ok"
                        /\ AnswerDecodes(after[a])
                        /\ after[a].answers = ans

\* C4 amended: with a wrong answer count SubmitAnswers always fails and
\* leaves every PlayerAnswer record unchanged; the error is
\* MissingRequiredSignature for an unsigned player, else InvalidAccountData
\* for a session that is not active or is completed, else
\* InvalidInstructionData.  With the right count, player signed, session
\* active and not completed, it succeeds exactly when the account's buffer
\* holds the record; the account then holds the signer and exactly the
\* submitted answers, no other account changes, and the record decodes when
\* the buffer has exactly the record's size.  When the buffer is too short
\* the call fails and the account is unchanged.
C4_SubmitChecksInOrder ==
    quiz.exists =>
        \A caller \in Keys, signed \in BOOLEAN, a \in AnswerAddrs,
           ans \in AnswerInputs :
            LET out == process_submit_answers(Cur, caller, signed, a, ans)
                after == Kept(Cur, out).answers
                open == quiz.active /\ ~quiz.completed
            IN  IF Len(ans) # quiz.question_count
                THEN /\ after = answers
                     /\ out.err = IF ~signed THEN "MissingRequiredSignature"
                                  ELSE IF ~open THEN "InvalidAccountData"
                                  ELSE "InvalidInstructionData"
                ELSE (signed /\ open) =>
                        IF Len(ans) <= answers[a].room
                        THEN /\ out.err = "Ok"
                             /\ after[a].player = caller
                             /\ after[a].answers = ans
                             /\ after[a].room = answers[a].room
                             /\ AnswerDecodes(after[a])
                                    <=> answers[a].room = Len(ans)
                             /\ \A b \in AnswerAddrs \ {a} :
                                    after[b] = answers[b]
                        ELSE /\ out.err = "BorshIoError"
                             /\ after = answers

\* A session with questions on which a submission of the right count has
\* just been stored, while a submission of a wrong count is refused.
C4_Witness ==
    /\ ret = "SubmitAnswers" /\ quiz.question_count > 0
    /\ \E a \in AnswerAddrs :
          /\ answers[a].player \in Keys
          /\ Len(answers[a].answers) = quiz.question_count
          /\ process_submit_answers(Cur, answers[a].player, TRUE, a,
                                    <<>>).err = "InvalidInstructionData"

\* The number of positions, among those both sequences have, at which the
\* player's answer equals the key.
MatchCount(player_answers, key) ==
    Cardinality({i \in 1 .. Min(Len(player_answers), Len(key)) :
                    player_answers[i] = key[i]})

\* C5: for every player processed by a successful CalculateScores, the
\* PlayerScore written equals the number of indices i below
\* min(len(answers), question_count) with answers[i] equal to the i-th
\* question's correct_answer_index (the questions as the call read them).
C5_ScoreIsMatchCount ==
    [][ret' = "CalculateScores" =>
          \A caller \in Keys, qa \in QuestionListsFor(quiz),
             pa \in PlayerListsFor(quiz) :
              CalculateScores(caller, TRUE, qa, pa) =>
                  /\ Len(qa) = quiz.question_count
                  /\ Len(pa) = quiz.player_count
                  /\ \A k \in 1 .. Len(pa) :
                        LET rec == answers[pa[k].answer]
                            key == [i \in 1 .. Len(qa) |->
                                       questions[qa[i]].correct_answer_index]
                            written == scores'[PlayerScorePda(QuizKey,
                                                              rec.player)]
                        IN  /\ written.exists
                            /\ written.player = rec.player
                            /\ written.score = MatchCount(rec.answers, key)
    ]_vars

\* A completed session of at least two questions in which a player was
\* scored for some but not all of the questions.
C5_Witness ==
    /\ ret = "CalculateScores" /\ quiz.completed
    /\ quiz.question_count >= 2 /\ quiz.player_count >= 1
    /\ \E a \in ScoreAddrs :
          /\ scores[a].exists
          /\ scores[a].score >= 1
          /\ scores[a].score < quiz.question_count

\* C6: AddQuestion, StartQuiz, CommitAnswers and CalculateScores, signed by
\* a key that is not the session's host, fail with the wrong-host error
\* (InvalidAccountData, one of the values the spec calls Unauthorized) and
\* leave the QuizSession record as it was, in every session phase.
C6_NonHostRejected ==
    quiz.exists =>
        \A caller \in Keys \ {quiz.host} :
            LET rejected(out) ==
                    /\ out.err = "InvalidAccountData"
                    /\ out.err \in Unauthorized
                    /\ Kept(Cur, out).quiz = quiz
            IN  /\ \A i \in QuestionIndices, a \in QuestionAddrs,
                      c \in AnswerVals :
                      rejected(process_add_question(Cur, caller, TRUE, i, a,
                                                    c))
                /\ rejected(process_start_quiz(Cur, caller, TRUE))
                /\ \A cpi_ok \in BOOLEAN :
                      rejected(process_commit_answers(Cur, caller, TRUE,
                                                      cpi_ok))
                /\ \A qa \in QuestionListsFor(quiz),
                      pa \in PlayerListsFor(quiz) :
                      rejected(process_calculate_scores(Cur, caller, TRUE,
                                                        qa, pa))

\* A session that is not yet started, on which a signer other than the
\* host calls StartQuiz and is refused.
C6_Witness ==
    /\ quiz.exists /\ ~quiz.active
    /\ \E caller \in Keys \ {quiz.host} :
          process_start_quiz(Cur, caller, TRUE).err = "InvalidAccountData"

\* C7: a CalculateScores call that fails at any sub-step leaves no
\* PlayerScore record of its own behind and leaves completed as it was,
\* also when earlier players of the same call had been scored.
C7_FailedScoringKeepsNothing ==
    \A caller \in Keys, signed \in BOOLEAN, qa \in QuestionListsFor(quiz),
       pa \in PlayerListsFor(quiz) :
        LET out == process_calculate_scores(Cur, caller, signed, qa, pa)
        IN  out.err # "Ok" =>
                /\ Kept(Cur, out).scores = scores
                /\ Kept(Cur, out).quiz.completed = quiz.completed

\* A call by the host that has created a score record for an earlier
\* player and then fails on a later one.
C7_Witness ==
    \E qa \in QuestionListsFor(quiz), pa \in PlayerListsFor(quiz) :
        LET out == process_calculate_scores(Cur, quiz.host, TRUE, qa, pa)
        IN  /\ quiz.exists
            /\ out.err \in {"NotEnoughAccountKeys", "BorshIoError",
                            "InvalidArgument", "AccountAlreadyInUse"}
            /\ out.wrote
            /\ out.st.scores # scores

\* Every call a caller can make in the current state, with its outcome.
Outcomes ==
    {process_initialize_quiz(Cur, c, s, QuizKey, q) :
        c \in Keys, s \in BOOLEAN, q \in 0 .. MaxQ}
    \cup {process_add_question(Cur, x[1], x[2], x[3], x[4], x[5]) :
        x \in Keys \X BOOLEAN \X QuestionIndices \X QuestionAddrs
              \X AnswerVals}
    \cup {process_start_quiz(Cur, c, s) : c \in Keys, s \in BOOLEAN}
    \cup {process_delegate_player(Cur, x[1], x[2], x[3], x[4], x[5]) :
        x \in Keys \X BOOLEAN \X AnswerAddrs \X BOOLEAN \X BOOLEAN}
    \cup {process_submit_answers(Cur, x[1], x[2], x[3], x[4]) :
        x \in Keys \X BOOLEAN \X AnswerAddrs \X AnswerInputs}
    \cup {process_commit_answers(Cur, c, s, cpi_ok) :
        c \in Keys, s \in BOOLEAN, cpi_ok \in BOOLEAN}
    \cup {process_calculate_scores(Cur, x[1], x[2], x[3], x[4]) :
        x \in Keys \X BOOLEAN \X QuestionListsFor(quiz)
              \X PlayerListsFor(quiz)}
    \cup {process_undelegate_player(Cur, x[1], x[2], x[3], x[4]) :
        x \in Keys \X BOOLEAN \X AnswerAddrs \X BOOLEAN}

\* C8: in every operation every check precedes any mutation: no call has
\* written or created a record and then failed.
C8_ChecksBeforeWrites ==
    \A out \in Outcomes : out.err # "Ok" => ~out.wrote

\* C9: DelegatePlayer succeeds only when the player signed and the session
\* is active and not completed; each successful call increases
\* player_count by exactly 1 and a failed call leaves it unchanged.
C9_DelegateCountsByOne ==
    \A caller \in Keys, signed \in BOOLEAN, a \in AnswerAddrs,
       cpi_ok \in BOOLEAN, overflow_checks \in BOOLEAN :
        LET out == process_delegate_player(Cur, caller, signed, a, cpi_ok,
                                           overflow_checks)
            after == Kept(Cur, out).quiz.player_count
        IN  IF out.err = "Ok"
            THEN /\ signed /\ quiz.active /\ ~quiz.completed
                 /\ after = quiz.player_count + 1
            ELSE after = quiz.player_count

\* C10: player_count never decreases, whatever the sequence of calls.
C10_PlayerCountMonotone ==
    [][quiz'.player_count >= quiz.player_count]_vars

\* The PlayerScore records of the session that exist.
ScoreRecords == {a \in ScoreAddrs : scores[a].exists}

\* C11: whenever the session has completed = true, the number of its
\* PlayerScore records equals player_count, the records belong to distinct
\* players, and every score lies in 0 .. question_count.
C11_ScoresMaterialized ==
    quiz.completed =>
        /\ Cardinality(ScoreRecords) = quiz.player_count
        /\ \A a, b \in ScoreRecords :
               scores[a].player = scores[b].player => a = b
        /\ \A a \in ScoreRecords :
               scores[a].score \in 0 .. quiz.question_count

\* The session addresses a caller may list as quiz_account.
SessionAddrs == {QuizPda(k) : k \in Keys}

\* C12: a successful InitializeQuiz creates a session that reads back with
\* host = caller, the given question_count, player_count = 0, active = false
\* and completed = false, and a signed caller whose derived address is the
\* listed, not yet created account does succeed; an unsigned caller fails
\* with MissingRequiredSignature (Unauthorized), a signed caller listing an
\* address other than the one derived from its key fails with
\* InvalidArgument (AddressMismatch), and neither creates or changes a
\* session.  (The store follows the account at QuizKey.)
C12_InitializeCreatesSession ==
    \A caller \in Keys, signed \in BOOLEAN, quiz_account \in SessionAddrs,
       q \in 0 .. MaxQ :
        (quiz_account = QuizKey \/ QuizPda(caller) # quiz_account) =>
            LET out == process_initialize_quiz(Cur, caller, signed,
                                               quiz_account, q)
                kept == Kept(Cur, out).quiz
            IN  /\ ~signed =>
                       /\ out.err = "MissingRequiredSignature"
                       /\ out.err \in Unauthorized
                       /\ kept = quiz
                /\ (signed /\ QuizPda(caller) # quiz_account) =>
                       /\ out.err \in AddressMismatch
                       /\ kept = quiz
                /\ (signed /\ QuizPda(caller) = quiz_account
                        /\ ~quiz.exists) => out.err = "Ok"
                /\ out.err = "Ok" =>
                       /\ QuizDecodes(kept)
                       /\ kept = [exists |-> TRUE, host |-> caller,
                                  question_count |-> q, player_count |-> 0,
                                  active |-> FALSE, completed |-> FALSE]

\* A session of MaxQ questions that InitializeQuiz has just created.
C12_Witness ==
    /\ ret = "InitializeQuiz"
    /\ quiz = [exists |-> TRUE, host |-> Host, question_count |-> MaxQ,
               player_count |-> 0, active |-> FALSE, completed |-> FALSE]

\* C13: the session is never reset: once the QuizSession exists, no call
\* changes its host or its question_count, and a repeated InitializeQuiz by
\* its host fails and leaves the record as it was.
C13_SessionNeverReset ==
    [][quiz.exists =>
          /\ quiz'.exists
          /\ quiz'.host = quiz.host
          /\ quiz'.question_count = quiz.question_count
          /\ \A signed \in BOOLEAN, q \in 0 .. MaxQ :
                 LET out == process_initialize_quiz(Cur, quiz.host, signed,
                                                    QuizKey, q)
                 IN  out.err # "Ok" /\ Kept(Cur, out).quiz = quiz]_vars

\* The command of each discriminator
CommandOf ==
    <<"InitializeQuiz", "AddQuestion", "StartQuiz", "DelegatePlayer",
      "SubmitAnswers", "CommitAnswers", "CalculateScores",
      "UndelegatePlayer">>

\* C15: the dispatcher maps discriminator 0 .. 7 to InitializeQuiz,
\* AddQuestion, StartQuiz, DelegatePlayer, SubmitAnswers, CommitAnswers,
\* CalculateScores, UndelegatePlayer (the commands without a payload always
\* decode, the others when their payload does) and runs that command's
\* handler; any other discriminator, and any buffer shorter than the 8-byte
\* header, fails with InvalidInstructionData, and a buffer that does not
\* decode runs no operation: the call returns the decoder's error and no
\* account changes.
C15_DispatchByDiscriminator ==
    \A instruction_data \in Buffers :
        LET ix == unpack(instruction_data)
            long == Len(instruction_data) >= 8
            header == SubSeq(instruction_data, 1, 8)
            env == CHOOSE e \in CallEnvs(Host, ix.tag) : TRUE
        IN  /\ ~long =>
                   ix.err = "InvalidInstructionData" /\ ix.err \in MalformedInput
            /\ (long /\ header \notin {Disc(n) : n \in 0 .. 7}) =>
                   ix.err = "InvalidInstructionData"
            /\ \A n \in 0 .. 7 :
                   (long /\ header = Disc(n)) =>
                       /\ ix.err = "Ok" => ix.tag = CommandOf[n + 1]
                       /\ n \in {2, 3, 5, 6} => ix.err = "Ok"
                       /\ (n = 0 /\ Len(instruction_data) > 8) =>
                              /\ ix.err = "Ok"
                              /\ ix.question_count = instruction_data[9]
            /\ \A caller \in Keys, signed \in BOOLEAN :
                   LET out == process_instruction(Cur, caller, signed, env,
                                                  instruction_data)
                   IN  /\ ix.err # "Ok" =>
                              /\ out.err = ix.err
                              /\ ~out.wrote
                              /\ Kept(Cur, out) = Cur
                       /\ (ix.err = "Ok" /\ ix.tag = "StartQuiz") =>
                              out = process_start_quiz(Cur, caller, signed)
                       /\ (ix.err = "Ok" /\ ix.tag = "InitializeQuiz") =>
                              out = process_initialize_quiz(
                                        Cur, caller, signed, QuizKey,
                                        instruction_data[9])
                       /\ (ix.err = "Ok" /\ ix.tag = "CommitAnswers") =>
                              out = process_commit_answers(Cur, caller,
                                                           signed, env.cpi_ok)

\* A session completed through the dispatcher, for which a buffer with an
\* unknown discriminator and a buffer of seven bytes are both refused.
C15_Witness ==
    /\ ret = "CalculateScores" /\ quiz.completed /\ quiz.active
    /\ unpack(Disc(MaxDisc)).err = "InvalidInstructionData"
    /\ unpack(<<2, 0, 0, 0, 0, 0, 0>>).err = "InvalidInstructionData"

\* C16: only the first byte of the 8-byte discriminator is used: two
\* buffers of length at least 8 that differ only in header bytes 1 .. 7
\* decode to the same command, or both fail the same way, so that a call
\* with the one has the outcome of the call with the other.
C16_OnlyFirstByteUsed ==
    \A d1, d2 \in Buffers :
        (/\ Len(d1) >= 8 /\ Len(d2) = Len(d1)
         /\ d1[1] = d2[1]
         /\ SubSeq(d1, 9, Len(d1)) = SubSeq(d2, 9, Len(d2)))
            => /\ Unpackings[d1] = Unpackings[d2]
               /\ \A env \in CallEnvs(Host, Unpackings[d1].tag) :
                      process_instruction(Cur, Host, TRUE, env, d1)
                          = process_instruction(Cur, Host, TRUE, env, d2)

\* C16 amended: all eight header bytes are compared: a buffer of length at
\* least 8 with a nonzero byte among header bytes 1 .. 7 fails with
\* InvalidInstructionData whatever its first byte and payload, and the call
\* changes no account; a buffer whose first byte is 0 .. 7 decodes to a
\* command only with header bytes 1 .. 7 all zero.
C16_WholeHeaderCompared ==
    \A instruction_data \in Buffers :
        Len(instruction_data) >= 8 =>
            LET ix == unpack(instruction_data)
                padded == \E i \in 2 .. 8 : instruction_data[i] # 0
                env == CHOOSE e \in CallEnvs(Host, ix.tag) : TRUE
                out == process_instruction(Cur, Host, TRUE, env,
                                           instruction_data)
            IN  /\ padded =>
                       /\ ix = NoInstruction("InvalidInstructionData")
                       /\ out.err = "InvalidInstructionData"
                       /\ Kept(Cur, out) = Cur
                /\ ix.err = "Ok" =>
                       /\ ~padded
                       /\ instruction_data[1] \in 0 .. 7

\* A session started through the dispatcher with the header of StartQuiz,
\* on which the same header with byte 1 set is refused.
C16_Witness ==
    /\ ret = "StartQuiz" /\ quiz.active
    /\ <<2, 1, 0, 0, 0, 0, 0, 0>> \in Buffers
    /\ unpack(<<2, 1, 0, 0, 0, 0, 0, 0>>).err = "InvalidInstructionData"
    /\ unpack(Disc(2)).tag = "StartQuiz"

\* C17: active never goes from true back to false, and StartQuiz invoked
\* again by the host on an already active session succeeds and re-writes
\* true: the record after it equals the record before it, in any phase
\* including Completed.
C17_ActiveStaysSet ==
    [][quiz.active =>
          /\ quiz'.active
          /\ LET out == process_start_quiz(Cur, quiz.host, TRUE)
              IN  out.err = "Ok" /\ Kept(Cur, out).quiz = quiz]_vars

C20_SessionFrame ==
    [][/\ ret' \in {"CommitAnswers", "UndelegatePlayer", "SubmitAnswers"}
           => quiz' = quiz
       /\ (quiz.exists /\ quiz' # quiz)
           => ret' \in {"StartQuiz", "DelegatePlayer", "CalculateScores"}
      ]_vars

=============================================================================
